---- MODULE Spec2Model ----
(***************************************************************************)
(* Booking and payment-verification engine of Reservas-ZonasComunitarias.  *)
(*                                                                         *)
(* The durable store (the reservations table), the in-memory reservation   *)
(* set of each browser session (ReservationProvider), and the handlers of  *)
(* ReservationsList that drive the payment workflow.  A handler reads the  *)
(* session's state when it is called and writes to the table after an      *)
(* await, so other sessions may run in between: pc records the handler a   *)
(* session is in.  The loadReservations a handler awaits after its write   *)
(* is answered in the step of the write.                                   *)
(***************************************************************************)
EXTENDS Integers, Sequences, FiniteSets, TLC

VARIABLES
    store,            \* the reservations table: a sequence of rows, id = position
    now,              \* the last value read from the wall clock
    nextUpload,       \* number of the next object put into the payment-proofs bucket
    reservations,     \* per session: the useState reservations array
    pc,               \* per session: the position of the running handler
    paymentProofs,    \* per session: ids with a File selected (useState paymentProofs)
    outcome,          \* per session: what the last handler reported: the value
                      \* addReservation returned, the payment message shown
    probe,            \* inputs and results of a function applied on its own
    events,           \* per session: change events of the table not yet delivered
    loads,            \* per session: answers to the selects of loadReservations
                      \* calls of the change channel, on their way
    reservationsError, \* per session: useState reservationsError is set
    user,             \* per session: useAuth().user, Null when nobody is signed in
    isAuthLoading,    \* per session: useAuth().isLoading
    channels          \* per session: 'reservations-changes' channels subscribed

vars == <<store, now, nextUpload, reservations, pc,
          paymentProofs, outcome, probe,
          events, loads, reservationsError,
          user, isAuthLoading, channels>>

-----------------------------------------------------------------------------
(* Bounds of the model *)

MaxReservations == 1      \* rows the table may hold when payments are followed
MaxBookings == 2          \* rows the table may hold when bookings are followed
MaxClock == 0             \* readings of the clock are 0..MaxClock
MaxUploads == 2           \* objects the bucket may hold
MaxSlot == 4              \* half hours after 09:00 the overlap probe ranges over
MaxHalfHours == 24        \* the cancellation rule is asked at 00:00 + k half hours
MaxRows == 3              \* rows of the table the projections are asked over
MaxEvents == 2            \* change events a session may have waiting
MaxLoads == 2             \* answers the change channel of a session may have on their way
MaxInstant == 1           \* readings of the clock are 0..MaxInstant when updates are repeated

-----------------------------------------------------------------------------
(* Values *)

\* null / undefined: an optional value v is <<v>> when present
Null == <<>>
Some(v) == <<v>>

Sessions == {"m1", "a1"}

\* useAuth().user of each session
Principal(s) ==
    IF s = "a1" THEN [id |-> "adm", role |-> "admin"]
                ELSE [id |-> "u1", role |-> "member"]

\* the isAdminView prop of the ReservationsList the session shows
isAdminView(s) == Principal(s).role = "admin"

\* wall-clock times of day "HH:MM" as <<hours, minutes>>
TimeOfDay(k) == <<9 + (k \div 2), 30 * (k % 2)>>

\* timeToMinutes of utils/dateUtils: "HH:MM" as minutes since midnight
timeToMinutes(t) == t[1] * 60 + t[2]

-----------------------------------------------------------------------------
(* The overlap test of isTimeSlotAvailable *)

\* the test with the end of the stored reservation counted as part of it
OverlapsClosedEnd(requestStartMinutes, requestEndMinutes, reservationStartMinutes, reservationEndMinutes) ==
    \/ (requestStartMinutes >= reservationStartMinutes
            /\ requestStartMinutes <= reservationEndMinutes)
    \/ (requestEndMinutes > reservationStartMinutes
            /\ requestEndMinutes <= reservationEndMinutes)
    \/ (requestStartMinutes <= reservationStartMinutes
            /\ requestEndMinutes >= reservationEndMinutes)

\* the test without its third case, the request that contains the reservation
OverlapsNoContainment(requestStartMinutes, requestEndMinutes, reservationStartMinutes, reservationEndMinutes) ==
    \/ (requestStartMinutes >= reservationStartMinutes
            /\ requestStartMinutes < reservationEndMinutes)
    \/ (requestEndMinutes > reservationStartMinutes
            /\ requestEndMinutes <= reservationEndMinutes)

\* the predicate of data.some(...): the request against one stored reservation,
\* all four in minutes since midnight
Overlaps(requestStartMinutes, requestEndMinutes, reservationStartMinutes, reservationEndMinutes) ==
    \/ (requestStartMinutes >= reservationStartMinutes
            /\ requestStartMinutes < reservationEndMinutes)
    \/ (requestEndMinutes > reservationStartMinutes
            /\ requestEndMinutes <= reservationEndMinutes)
    \/ (requestStartMinutes <= reservationStartMinutes
            /\ requestEndMinutes >= reservationEndMinutes)

\* the select without .neq('status', 'cancelled')
SelectSlotRowsWithCancelled(table, spaceId, date) ==
    {i \in DOMAIN table : /\ table[i].space_id = spaceId
                          /\ table[i].date = date}

\* the select without .eq('date', date)
SelectSlotRowsAnyDate(table, spaceId, date) ==
    {i \in DOMAIN table : /\ table[i].space_id = spaceId
                          /\ table[i].status # "cancelled"}

\* .select('start_time, end_time').eq('space_id').eq('date').neq('status','cancelled')
SelectSlotRows(table, spaceId, date) ==
    {i \in DOMAIN table : /\ table[i].space_id = spaceId
                          /\ table[i].date = date
                          /\ table[i].status # "cancelled"}

\* isTimeSlotAvailable with the select answered from table
isTimeSlotAvailable(table, spaceId, date, startTime, endTime) ==
    LET data == SelectSlotRows(table, spaceId, date) IN
    IF data = {} THEN TRUE
    ELSE ~ \E i \in data :
             Overlaps(timeToMinutes(startTime), timeToMinutes(endTime),
                      timeToMinutes(table[i].start_time),
                      timeToMinutes(table[i].end_time))

-----------------------------------------------------------------------------
(* Rows and their images in the session *)

\* every new reservation waiting for a payment
InitialPaymentStatusPending(requiresPayment) == "pending"

\* the initial payment status addReservation derives from requiresPayment
InitialPaymentStatus(requiresPayment) ==
    IF requiresPayment THEN "pending" ELSE "not_required"

\* the row addReservation inserts; the table assigns the id and stamps the
\* row with the time of the insert, later for a later row
NewRow(id, reservationData) ==
    [id |-> id,
     created_at |-> id,
     space_id |-> reservationData.spaceId,
     user_id |-> reservationData.userId,
     date |-> reservationData.date,
     start_time |-> reservationData.startTime,
     end_time |-> reservationData.endTime,
     status |-> "confirmed",
     requires_payment |-> reservationData.requiresPayment,
     payment_status |-> InitialPaymentStatus(reservationData.requiresPayment),
     payment_proof_url |-> Null,
     payment_verified_at |-> Null,
     payment_verified_by |-> Null]

\* the row of profiles the select of an administrator joins to a reservation
Profile(userId) ==
    IF userId = "adm" THEN [full_name |-> "name of adm", phone |-> "phone of adm"]
                      ELSE [full_name |-> "name of u1", phone |-> "phone of u1"]

\* data.map(...) of loadReservations, run for the user of the call: one table
\* row as a Reservation object
FormatReservation(principal, row) ==
    LET profile == IF principal.role = "admin" THEN Some(Profile(row.user_id))
                                               ELSE Null
    IN
    [id |-> row.id,
     spaceId |-> row.space_id,
     userId |-> row.user_id,
     userName |-> IF profile # Null THEN profile[1].full_name ELSE "",
     userContact |-> IF profile # Null THEN profile[1].phone ELSE "",
     date |-> row.date,
     startTime |-> row.start_time,
     endTime |-> row.end_time,
     status |-> row.status,
     createdAt |-> row.created_at,
     requiresPayment |-> row.requires_payment,
     paymentStatus |-> row.payment_status,
     paymentProofUrl |-> row.payment_proof_url,
     paymentVerifiedAt |-> row.payment_verified_at,
     paymentVerifiedBy |-> row.payment_verified_by]

\* a Reservation put into a sequence ordered by createdAt, latest first,
\* behind those of its own createdAt
RECURSIVE InsertByCreatedAtDesc(_, _)
InsertByCreatedAtDesc(reservation, sorted) ==
    IF sorted = <<>> THEN <<reservation>>
    ELSE IF Head(sorted).createdAt >= reservation.createdAt
         THEN <<Head(sorted)>> \o InsertByCreatedAtDesc(reservation, Tail(sorted))
         ELSE <<reservation>> \o sorted

\* a sequence of Reservation objects ordered by createdAt, latest first, and
\* as they came where createdAt is the same
RECURSIVE SortByCreatedAtDesc(_)
SortByCreatedAtDesc(list) ==
    IF list = <<>> THEN <<>>
    ELSE InsertByCreatedAtDesc(list[Len(list)],
                               SortByCreatedAtDesc(SubSeq(list, 1, Len(list) - 1)))

\* what loadReservations hands to setReservations when the select, with
\* .order('created_at', { ascending: false }), is answered from table
LoadedReservations(principal, table) ==
    SortByCreatedAtDesc([i \in DOMAIN table |-> FormatReservation(principal, table[i])])

\* the payload without the else branch that nulls verification time and verifier
PaymentPayloadKeepsVerifier(updates, userId, isoNow) ==
    LET statusPart ==
            IF updates.paymentStatus # Null
            THEN IF updates.paymentStatus[1] = "verified"
                 THEN [payment_status |-> updates.paymentStatus[1],
                       payment_verified_at |-> Some(isoNow),
                       payment_verified_by |-> Some(userId)]
                 ELSE [payment_status |-> updates.paymentStatus[1]]
            ELSE [k \in {} |-> Null]
        proofPart ==
            IF updates.paymentProofUrl # Null
            THEN [payment_proof_url |-> updates.paymentProofUrl[1]]
            ELSE [k \in {} |-> Null]
    IN statusPart @@ proofPart

\* the payload with payment_proof_url written whether or not updates names it
PaymentPayloadClearsProof(updates, userId, isoNow) ==
    LET statusPart ==
            IF updates.paymentStatus # Null
            THEN IF updates.paymentStatus[1] = "verified"
                 THEN [payment_status |-> updates.paymentStatus[1],
                       payment_verified_at |-> Some(isoNow),
                       payment_verified_by |-> Some(userId)]
                 ELSE [payment_status |-> updates.paymentStatus[1],
                       payment_verified_at |-> Null,
                       payment_verified_by |-> Null]
            ELSE [k \in {} |-> Null]
        proofPart ==
            [payment_proof_url |-> IF updates.paymentProofUrl # Null
                                   THEN updates.paymentProofUrl[1] ELSE Null]
    IN statusPart @@ proofPart

\* the payload updateReservationPayment builds from its updates argument;
\* an absent key of updates is Null, a present one Some(value)
PaymentPayload(updates, userId, isoNow) ==
    LET statusPart ==
            IF updates.paymentStatus # Null
            THEN IF updates.paymentStatus[1] = "verified"
                 THEN [payment_status |-> updates.paymentStatus[1],
                       payment_verified_at |-> Some(isoNow),
                       payment_verified_by |-> Some(userId)]
                 ELSE [payment_status |-> updates.paymentStatus[1],
                       payment_verified_at |-> Null,
                       payment_verified_by |-> Null]
            ELSE [k \in {} |-> Null]
        proofPart ==
            IF updates.paymentProofUrl # Null
            THEN [payment_proof_url |-> updates.paymentProofUrl[1]]
            ELSE [k \in {} |-> Null]
    IN statusPart @@ proofPart

\* .update(payload).eq('id', id)
UpdateById(table, id, payload) ==
    [i \in DOMAIN table |->
        IF table[i].id = id
        THEN [c \in DOMAIN table[i] |->
                 IF c \in DOMAIN payload THEN payload[c] ELSE table[i][c]]
        ELSE table[i]]

-----------------------------------------------------------------------------
(* Initial state: every session mounted with a principal, the table empty *)

Idle == [op |-> "idle"]

NoProbe == [a |-> Null, b |-> Null, ab |-> Null, ba |-> Null]

\* every session has its principal signed in and its channel subscribed
SignedIn ==
    /\ user = [s \in Sessions |-> Some(Principal(s))]
    /\ isAuthLoading = [s \in Sessions |-> FALSE]
    /\ channels = [s \in Sessions |-> 1]

\* no change event under way, no select unanswered, no error shown
Quiet ==
    /\ events = [s \in Sessions |-> 0]
    /\ loads = [s \in Sessions |-> {}]
    /\ reservationsError = [s \in Sessions |-> FALSE]

Init ==
    /\ store = <<>>
    /\ now = 0
    /\ nextUpload = 1
    /\ Quiet
    /\ SignedIn
    /\ reservations = [s \in Sessions |-> <<>>]
    /\ pc = [s \in Sessions |-> Idle]
    /\ paymentProofs = [s \in Sessions |-> {}]
    /\ outcome = [s \in Sessions |-> "none"]
    /\ probe = NoProbe

\* a call of new Date(): the clock never runs backwards
ReadClock(t) == t >= now /\ now' = t

-----------------------------------------------------------------------------
(* addReservation *)

\* rows in the table or about to be inserted by a handler past its check
Committed ==
    Len(store) + Cardinality({s \in Sessions : pc[s].op = "addReservation"})

\* the call up to the answer of isTimeSlotAvailable's select: return false, or
\* go on to the insert
AddReservationCheck(s, request) ==
    LET reservationData == [spaceId |-> request.spaceId,
                            userId |-> Principal(s).id,
                            date |-> request.date,
                            startTime |-> request.startTime,
                            endTime |-> request.endTime,
                            requiresPayment |-> request.requiresPayment] IN
    /\ pc[s] = Idle
    /\ IF isTimeSlotAvailable(store, reservationData.spaceId, reservationData.date,
                              reservationData.startTime, reservationData.endTime)
       THEN /\ pc' = [pc EXCEPT ![s] = [op |-> "addReservation",
                                        reservationData |-> reservationData]]
            /\ outcome' = [outcome EXCEPT ![s] = "none"]
       ELSE /\ outcome' = [outcome EXCEPT ![s] = "addReservation:false"]
            /\ UNCHANGED pc
    /\ UNCHANGED <<store, now, nextUpload, reservations, paymentProofs, probe,
                   events, loads, reservationsError,
                   user, isAuthLoading, channels>>

\* the insert is answered without error, the awaited loadReservations replaces
\* the session's reservations, and addReservation returns true
AddReservationInsert(s) ==
    /\ pc[s].op = "addReservation"
    /\ store' = Append(store, NewRow(Len(store) + 1, pc[s].reservationData))
    /\ reservations' = [reservations EXCEPT ![s] = LoadedReservations(Principal(s), store')]
    /\ outcome' = [outcome EXCEPT ![s] = "addReservation:true"]
    /\ pc' = [pc EXCEPT ![s] = Idle]
    /\ UNCHANGED <<now, nextUpload, paymentProofs, probe,
                   events, loads, reservationsError,
                   user, isAuthLoading, channels>>

-----------------------------------------------------------------------------
(* What ReservationsList renders *)

\* the elements of a sequence
Range(list) == {list[i] : i \in DOMAIN list}

\* the filter without its test of the status
IsActiveOfAnyStatus(reservation, userId) ==
    reservation.userId = userId

\* the filter of getUserReservations
IsActiveOf(reservation, userId) ==
    reservation.userId = userId /\ reservation.status # "cancelled"

\* getUserReservations(userId): filter, then sort by createdAt, latest first
getUserReservations(s, userId) ==
    SortByCreatedAtDesc(
        SelectSeq(reservations[s], LAMBDA reservation : IsActiveOf(reservation, userId)))

\* getSpaceReservations(spaceId, date?): date is Null when it is not given
getSpaceReservations(s, spaceId, date) ==
    SelectSeq(reservations[s],
              LAMBDA reservation :
                  LET matchesSpace == reservation.spaceId = spaceId
                      matchesDate == IF date # Null THEN reservation.date = date[1]
                                                    ELSE TRUE
                      isActive == reservation.status # "cancelled"
                  IN matchesSpace /\ matchesDate /\ isActive)

\* userReservations: the Reservation objects the list shows
userReservations(s) ==
    IF isAdminView(s)
    THEN Range(reservations[s])
    ELSE Range(getUserReservations(s, Principal(s).id))

\* the rule without its test for completed
canCancelReservationIgnoresCompleted(reservation, within24Hours) ==
    IF reservation.status = "cancelled"
    THEN FALSE
    ELSE ~ within24Hours

\* canCancelReservation; isWithin24Hours depends on the day the list is shown
canCancelReservation(reservation, within24Hours) ==
    IF reservation.status = "cancelled" \/ reservation.status = "completed"
    THEN FALSE
    ELSE ~ within24Hours

-----------------------------------------------------------------------------
(* cancelReservation *)

\* the X button of a reservation that starts more than a day ahead:
\* handleCancelReservation calls cancelReservation(id)
handleCancelReservation(s, reservation) ==
    /\ pc[s] = Idle
    /\ reservation \in userReservations(s)
    /\ canCancelReservation(reservation, FALSE)
    /\ pc' = [pc EXCEPT ![s] = [op |-> "cancelReservation", id |-> reservation.id]]
    /\ outcome' = [outcome EXCEPT ![s] = "none"]
    /\ UNCHANGED <<store, now, nextUpload, reservations, paymentProofs, probe,
                   events, loads, reservationsError,
                   user, isAuthLoading, channels>>

\* a cancellation that removes the row
CancelReservationDeletes(s) ==
    /\ pc[s].op = "cancelReservation"
    /\ store' = SelectSeq(store, LAMBDA row : row.id # pc[s].id)
    /\ reservations' = [reservations EXCEPT ![s] = LoadedReservations(Principal(s), store')]
    /\ outcome' = [outcome EXCEPT ![s] = "cancelReservation:done"]
    /\ pc' = [pc EXCEPT ![s] = Idle]
    /\ UNCHANGED <<now, nextUpload, paymentProofs, probe,
                   events, loads, reservationsError,
                   user, isAuthLoading, channels>>

\* a cancellation that is refused for a reservation already cancelled
CancelReservationRefusesCancelled(s) ==
    /\ pc[s].op = "cancelReservation"
    /\ IF \E i \in DOMAIN store :
              store[i].id = pc[s].id /\ store[i].status = "cancelled"
       THEN /\ outcome' = [outcome EXCEPT ![s] = "cancelReservation:error"]
            /\ UNCHANGED <<store, reservations>>
       ELSE /\ store' = UpdateById(store, pc[s].id, [status |-> "cancelled"])
            /\ reservations' =
                   [reservations EXCEPT ![s] = LoadedReservations(Principal(s), store')]
            /\ outcome' = [outcome EXCEPT ![s] = "cancelReservation:done"]
    /\ pc' = [pc EXCEPT ![s] = Idle]
    /\ UNCHANGED <<now, nextUpload, paymentProofs, probe,
                   events, loads, reservationsError,
                   user, isAuthLoading, channels>>

\* the update is answered without error and the awaited loadReservations
\* replaces the session's reservations
CancelReservationUpdate(s) ==
    /\ pc[s].op = "cancelReservation"
    /\ store' = UpdateById(store, pc[s].id, [status |-> "cancelled"])
    /\ reservations' = [reservations EXCEPT ![s] = LoadedReservations(Principal(s), store')]
    /\ outcome' = [outcome EXCEPT ![s] = "cancelReservation:done"]
    /\ pc' = [pc EXCEPT ![s] = Idle]
    /\ UNCHANGED <<now, nextUpload, paymentProofs, probe,
                   events, loads, reservationsError,
                   user, isAuthLoading, channels>>

-----------------------------------------------------------------------------
(* The payment block of ReservationsList and updateReservationPayment *)

PaymentOps == {"handleSubmitPaymentProof", "handleVerifyPayment",
               "handleMarkPaymentPending"}

\* what calls updateReservationPayment: the handlers, or another consumer of
\* useReservations() that calls it as the context hands it out
UpdateCallers == PaymentOps \cup {"updateReservationPayment"}

\* the block rendered for every reservation of the list
PaymentBlockShownAlways(s, reservation) ==
    reservation \in userReservations(s)

\* the block is rendered for the reservations of the list that require payment
PaymentBlockShown(s, reservation) ==
    /\ reservation \in userReservations(s)
    /\ reservation.requiresPayment

\* the file input and "Enviar comprobante" of the requester's branch
SubmitControlsShown(s, reservation) ==
    /\ PaymentBlockShown(s, reservation)
    /\ ~ isAdminView(s)
    /\ reservation.paymentStatus # "verified"

\* "Verificar pago" of the administrator's branch.  Its disabled attribute
\* repeats the first check of handleVerifyPayment, which is modelled there.
VerifyButtonShown(s, reservation) ==
    /\ PaymentBlockShown(s, reservation)
    /\ isAdminView(s)

\* "Marcar como pendiente" of the administrator's branch
MarkPendingButtonShown(s, reservation) ==
    /\ PaymentBlockShown(s, reservation)
    /\ isAdminView(s)
    /\ reservation.paymentStatus # "pending"

\* the public URL uploadPaymentProof returns: the object name is made of the
\* reservation id and a part that differs for every upload
PublicUrl(reservationId, n) == <<reservationId, n>>

\* uploads finished or under way
Uploaded ==
    (nextUpload - 1) + Cardinality({s \in Sessions : /\ pc[s].op \in PaymentOps
                                                     /\ pc[s].step = "upload"})

\* updateReservationPayment up to its update request: nothing is sent for an
\* empty payload
CallUpdateReservationPayment(s, op, id, updates, isoNow) ==
    LET payload == PaymentPayload(updates, Principal(s).id, isoNow) IN
    IF DOMAIN payload = {}
    THEN pc' = [pc EXCEPT ![s] = Idle]
    ELSE pc' = [pc EXCEPT ![s] = [op |-> op, step |-> "update", id |-> id,
                                  payload |-> payload]]

\* onChange of the file input
handlePaymentFileChange(s, reservation, hasFile) ==
    /\ SubmitControlsShown(s, reservation)
    /\ paymentProofs' = [paymentProofs EXCEPT ![s] =
                            IF hasFile THEN @ \cup {reservation.id}
                                       ELSE @ \ {reservation.id}]
    /\ outcome' = [outcome EXCEPT ![s] = "none"]
    /\ UNCHANGED <<store, now, nextUpload, reservations, pc, probe,
                   events, loads, reservationsError,
                   user, isAuthLoading, channels>>

\* handleSubmitPaymentProof up to its first await
handleSubmitPaymentProof(s, reservation) ==
    /\ pc[s] = Idle
    /\ SubmitControlsShown(s, reservation)
    /\ IF reservation.id \notin paymentProofs[s]
       THEN /\ outcome' = [outcome EXCEPT ![s] = "handleSubmitPaymentProof:no-file"]
            /\ UNCHANGED pc
       ELSE /\ Uploaded < MaxUploads
            /\ pc' = [pc EXCEPT ![s] = [op |-> "handleSubmitPaymentProof",
                                        step |-> "upload", id |-> reservation.id]]
            /\ outcome' = [outcome EXCEPT ![s] = "none"]
    /\ UNCHANGED <<store, now, nextUpload, reservations, paymentProofs, probe,
                   events, loads, reservationsError,
                   user, isAuthLoading, channels>>

\* a verification that never asks for a proof
NoProofNeverRefused(selectedFile, proofUrl) == FALSE

\* the first check of handleVerifyPayment: neither a selected file nor a proof
\* URL on the reservation shown
NoProofAvailable(selectedFile, proofUrl) ==
    ~ selectedFile /\ proofUrl = Null

\* handleVerifyPayment up to its first await
handleVerifyPayment(s, reservation) ==
    LET proofUrl == reservation.paymentProofUrl
        selectedFile == reservation.id \in paymentProofs[s]
    IN
    /\ pc[s] = Idle
    /\ VerifyButtonShown(s, reservation)
    /\ IF NoProofAvailable(selectedFile, proofUrl)
       THEN /\ outcome' = [outcome EXCEPT ![s] = "handleVerifyPayment:no-proof"]
            /\ UNCHANGED <<pc, now>>
       ELSE IF selectedFile /\ ~ isAdminView(s)
       THEN /\ Uploaded < MaxUploads
            /\ pc' = [pc EXCEPT ![s] = [op |-> "handleVerifyPayment",
                                        step |-> "upload", id |-> reservation.id]]
            /\ outcome' = [outcome EXCEPT ![s] = "none"]
            /\ UNCHANGED now
       ELSE /\ \E t \in now..MaxClock :
                 /\ ReadClock(t)
                 /\ CallUpdateReservationPayment(s, "handleVerifyPayment",
                        reservation.id,
                        [paymentStatus |-> Some("verified"),
                         paymentProofUrl |-> Some(proofUrl)], t)
            /\ outcome' = [outcome EXCEPT ![s] = "none"]
    /\ UNCHANGED <<store, nextUpload, reservations, paymentProofs, probe,
                   events, loads, reservationsError,
                   user, isAuthLoading, channels>>

\* handleMarkPaymentPending up to its await
handleMarkPaymentPending(s, reservation) ==
    /\ pc[s] = Idle
    /\ MarkPendingButtonShown(s, reservation)
    /\ CallUpdateReservationPayment(s, "handleMarkPaymentPending", reservation.id,
            [paymentStatus |-> Some("pending"), paymentProofUrl |-> Null], now)
    /\ outcome' = [outcome EXCEPT ![s] = "none"]
    /\ UNCHANGED <<store, now, nextUpload, reservations, paymentProofs, probe,
                   events, loads, reservationsError,
                   user, isAuthLoading, channels>>

\* uploadPaymentProof returns a URL and the handler calls
\* updateReservationPayment with it
UploadPaymentProofReturn(s) ==
    /\ pc[s].op \in PaymentOps /\ pc[s].step = "upload"
    /\ nextUpload' = nextUpload + 1
    /\ IF pc[s].op = "handleVerifyPayment"
       THEN \E t \in now..MaxClock :
                /\ ReadClock(t)
                /\ CallUpdateReservationPayment(s, pc[s].op, pc[s].id,
                       [paymentStatus |-> Some("verified"),
                        paymentProofUrl |->
                            Some(PublicUrl(pc[s].id, nextUpload))], t)
       ELSE /\ CallUpdateReservationPayment(s, pc[s].op, pc[s].id,
                       [paymentStatus |-> Some("submitted"),
                        paymentProofUrl |->
                            Some(PublicUrl(pc[s].id, nextUpload))], now)
            /\ UNCHANGED now
    /\ UNCHANGED <<store, reservations, paymentProofs, outcome, probe,
                   events, loads, reservationsError,
                   user, isAuthLoading, channels>>

\* the update of updateReservationPayment is answered without error and the
\* awaited loadReservations replaces the session's reservations; the handler
\* shows its success message and handleSubmitPaymentProof forgets the file
UpdateReservationPaymentUpdate(s) ==
    /\ pc[s].op \in UpdateCallers /\ pc[s].step = "update"
    /\ store' = UpdateById(store, pc[s].id, pc[s].payload)
    /\ reservations' = [reservations EXCEPT ![s] = LoadedReservations(Principal(s), store')]
    /\ paymentProofs' = [paymentProofs EXCEPT ![s] =
                            IF pc[s].op = "handleSubmitPaymentProof"
                            THEN @ \ {pc[s].id} ELSE @]
    /\ outcome' = [outcome EXCEPT ![s] = "success"]
    /\ pc' = [pc EXCEPT ![s] = Idle]
    /\ UNCHANGED <<now, nextUpload, probe,
                   events, loads, reservationsError,
                   user, isAuthLoading, channels>>

-----------------------------------------------------------------------------
(* The change channel *)

\* the postgres_changes callback: loadReservations replaces the session's
\* reservations.  An event follows every write to the table, at any later time.
ChangeEventLoad(s) ==
    /\ store # <<>>
    /\ reservations' = [reservations EXCEPT ![s] = LoadedReservations(Principal(s), store)]
    /\ UNCHANGED <<store, now, nextUpload, pc, paymentProofs, outcome, probe,
                   events, loads, reservationsError,
                   user, isAuthLoading, channels>>

-----------------------------------------------------------------------------
(* The engine: a requester's session and an administrator's session *)

Day == "2025-06-01"

\* what the booking form may ask for: one slot of a space that requires
\* payment and the same slot of one that does not
Requests ==
    {[spaceId |-> sp, date |-> Day, startTime |-> TimeOfDay(0),
      endTime |-> TimeOfDay(2), requiresPayment |-> (sp = "P")] : sp \in {"P", "R"}}

\* the Reservation objects some session holds
Held == UNION {{reservations[s][i] : i \in DOMAIN reservations[s]} : s \in Sessions}

\* the steps of a session that are the same in every specification
HandlerStep(s) ==
    \/ AddReservationInsert(s)
    \/ \E reservation \in Held : handleCancelReservation(s, reservation)
    \/ CancelReservationUpdate(s)

PaymentStep(s) ==
    \/ \E reservation \in Held, hasFile \in BOOLEAN :
           handlePaymentFileChange(s, reservation, hasFile)
    \/ \E reservation \in Held : handleSubmitPaymentProof(s, reservation)
    \/ \E reservation \in Held : handleVerifyPayment(s, reservation)
    \/ \E reservation \in Held : handleMarkPaymentPending(s, reservation)
    \/ UploadPaymentProofReturn(s)
    \/ UpdateReservationPaymentUpdate(s)

Next ==
    \E s \in Sessions :
        \/ \E request \in Requests :
               /\ ~ isAdminView(s)
               /\ Committed < MaxReservations
               /\ AddReservationCheck(s, request)
        \/ HandlerStep(s)
        \/ PaymentStep(s)
        \/ ChangeEventLoad(s)

Spec == Init /\ [][Next]_vars

-----------------------------------------------------------------------------
(* The overlap test on its own: every pair of minutes of the grid as       *)
(* request and as stored reservation                                       *)

Slots == 0..MaxSlot

\* minutes since midnight of the k-th half hour after 09:00
Minutes(k) == 540 + 30 * k

\* <<startMinutes, endMinutes>> with both on the grid; nothing in
\* addReservation keeps the end after the start
SlotPairs == {<<Minutes(i), Minutes(j)>> : i \in Slots, j \in Slots}

\* the test of isTimeSlotAvailable with x as the request and y as the stored row
OverlapTest(x, y) == Overlaps(x[1], x[2], y[1], y[2])

InitOverlap ==
    /\ store = <<>>
    /\ now = 0
    /\ nextUpload = 1
    /\ Quiet
    /\ SignedIn
    /\ reservations = [s \in Sessions |-> <<>>]
    /\ pc = [s \in Sessions |-> Idle]
    /\ paymentProofs = [s \in Sessions |-> {}]
    /\ outcome = [s \in Sessions |-> "none"]
    /\ probe \in [a : SlotPairs, b : SlotPairs, ab : {Null}, ba : {Null}]

\* a requested against b stored
TestAB ==
    /\ probe.ab = Null
    /\ probe' = [probe EXCEPT !.ab = Some(OverlapTest(probe.a, probe.b))]
    /\ UNCHANGED <<store, now, nextUpload, reservations, pc, paymentProofs,
                   outcome, events, loads, reservationsError,
                   user, isAuthLoading, channels>>

\* b requested against a stored
TestBA ==
    /\ probe.ba = Null
    /\ probe' = [probe EXCEPT !.ba = Some(OverlapTest(probe.b, probe.a))]
    /\ UNCHANGED <<store, now, nextUpload, reservations, pc, paymentProofs,
                   outcome, events, loads, reservationsError,
                   user, isAuthLoading, channels>>

NextOverlap == TestAB \/ TestBA

SpecOverlap == InitOverlap /\ [][NextOverlap]_vars

\* start strictly before end
IsInterval(x) == x[1] < x[2]

\* start not after end
IsSpan(x) == x[1] <= x[2]

\* NOT (x.end <= y.start OR x.start >= y.end), x and y in minutes
HalfOpenOverlap(x, y) == ~ (x[2] <= y[1] \/ x[1] >= y[2])

\* C3: for a request and a stored reservation that both end after they start,
\* the three-disjunct test of isTimeSlotAvailable is true exactly when
\* NOT (request.end <= stored.start OR request.start >= stored.end); a request
\* that starts when the stored reservation ends, or ends when it starts, is
\* not an overlap.
C3_OverlapIsHalfOpen ==
    (probe.ab # Null /\ IsInterval(probe.a) /\ IsInterval(probe.b)) =>
        /\ probe.ab[1] = HalfOpenOverlap(probe.a, probe.b)
        /\ (probe.a[2] = probe.b[1] \/ probe.a[1] = probe.b[2]) => ~ probe.ab[1]

\* C3 witness: 09:00-10:00 requested against 10:00-11:00 stored was tested and
\* found free
C3_Witness ==
    /\ probe.a = <<Minutes(0), Minutes(2)>>
    /\ probe.b = <<Minutes(2), Minutes(4)>>
    /\ probe.ab = Some(FALSE)

\* C4: the test gives the same answer whichever of two intervals, each with
\* its start not after its end, is the request and whichever the stored
\* reservation.
C4_OverlapSymmetric ==
    (probe.ab # Null /\ probe.ba # Null
        /\ IsSpan(probe.a) /\ IsSpan(probe.b)) => probe.ab = probe.ba

\* C4 witness: 09:00-11:00 and 09:30-10:00, one inside the other, tested both
\* ways and found to overlap both ways
C4_Witness ==
    /\ probe.a = <<Minutes(0), Minutes(4)>>
    /\ probe.b = <<Minutes(1), Minutes(2)>>
    /\ probe.ab = Some(TRUE)
    /\ probe.ba = Some(TRUE)

-----------------------------------------------------------------------------
(* Bookings one call at a time: both principals book and cancel, and no    *)
(* call starts while another runs                                          *)

NextDay == "2025-06-02"

BookingSlots == {<<TimeOfDay(0), TimeOfDay(2)>>,       \* 09:00-10:00
                 <<TimeOfDay(1), TimeOfDay(3)>>,       \* 09:30-10:30
                 <<TimeOfDay(2), TimeOfDay(4)>>}       \* 10:00-11:00

BookingRequest(sp, d, slot) ==
    [spaceId |-> sp, date |-> d, startTime |-> slot[1], endTime |-> slot[2],
     requiresPayment |-> (sp = "P")]

\* the three slots of space R on one day, and the middle slot of R on the
\* next day and of space P on the same day
BookingRequests ==
    {BookingRequest("R", Day, slot) : slot \in BookingSlots}
        \cup {BookingRequest("R", NextDay, <<TimeOfDay(1), TimeOfDay(3)>>),
              BookingRequest("P", Day, <<TimeOfDay(1), TimeOfDay(3)>>)}

AllIdle == \A s \in Sessions : pc[s] = Idle

NextSequential ==
    \E s \in Sessions :
        \/ \E request \in BookingRequests :
               /\ AllIdle
               /\ Committed < MaxBookings
               /\ AddReservationCheck(s, request)
        \/ AddReservationInsert(s)
        \/ \E reservation \in Held :
               AllIdle /\ handleCancelReservation(s, reservation)
        \/ CancelReservationUpdate(s)

SpecSequential == Init /\ [][NextSequential]_vars

\* the [start, end) of a reservation in minutes since midnight
MinutesOf(startTime, endTime) == <<timeToMinutes(startTime), timeToMinutes(endTime)>>

\* a stored reservation that is not cancelled, of the request's space and day,
\* shares a minute with the request
ActiveOverlap(table, request) ==
    \E i \in DOMAIN table :
        /\ table[i].space_id = request.spaceId
        /\ table[i].date = request.date
        /\ table[i].status # "cancelled"
        /\ HalfOpenOverlap(MinutesOf(request.startTime, request.endTime),
                           MinutesOf(table[i].start_time, table[i].end_time))

\* C2: with calls one at a time, a request that overlaps a stored reservation
\* of its space and day that is not cancelled returns false and leaves the
\* table as it was; a request that overlaps none goes on to its insert, which
\* appends exactly one row, the request's, and returns true.
C2_SequentialBooking ==
    [][\A s \in Sessions :
          /\ \A request \in BookingRequests :
                AddReservationCheck(s, request) =>
                    IF ActiveOverlap(store, request)
                    THEN /\ outcome'[s] = "addReservation:false"
                         /\ pc'[s] = Idle
                         /\ store' = store
                    ELSE pc'[s].op = "addReservation"
          /\ AddReservationInsert(s) =>
                /\ ~ ActiveOverlap(store, pc[s].reservationData)
                /\ Len(store') = Len(store) + 1
                /\ SubSeq(store', 1, Len(store)) = store
                /\ store'[Len(store')].start_time = pc[s].reservationData.startTime
                /\ store'[Len(store')].end_time = pc[s].reservationData.endTime
                /\ store'[Len(store')].space_id = pc[s].reservationData.spaceId
                /\ store'[Len(store')].date = pc[s].reservationData.date
                /\ outcome'[s] = "addReservation:true"]_vars

\* C2 witness: 09:00-10:00 and 10:00-11:00 of one space and day are both
\* booked, and a request between them was refused
C2_Witness ==
    /\ Len(store) = 2
    /\ store[1].space_id = store[2].space_id /\ store[1].date = store[2].date
    /\ store[1].status = "confirmed" /\ store[2].status = "confirmed"
    /\ store[1].end_time = store[2].start_time
    /\ \E s \in Sessions : outcome[s] = "addReservation:false"
    /\ \E s \in Sessions : outcome[s] = "addReservation:true"

-----------------------------------------------------------------------------
(* Bookings of concurrent sessions: the same calls, started at any time *)

NextBooking ==
    \E s \in Sessions :
        \/ \E request \in BookingRequests :
               Committed < MaxBookings /\ AddReservationCheck(s, request)
        \/ AddReservationInsert(s)
        \/ \E reservation \in Held : handleCancelReservation(s, reservation)
        \/ CancelReservationUpdate(s)
        \/ ChangeEventLoad(s)

SpecBooking == Init /\ [][NextBooking]_vars

\* C1: no two stored reservations of one space and day, neither cancelled,
\* share a minute, whatever the interleaving of addReservation calls.
C1_NoActiveOverlap ==
    \A i \in DOMAIN store : \A j \in DOMAIN store :
        (/\ i # j
         /\ store[i].space_id = store[j].space_id
         /\ store[i].date = store[j].date
         /\ store[i].status # "cancelled"
         /\ store[j].status # "cancelled")
        => ~ HalfOpenOverlap(MinutesOf(store[i].start_time, store[i].end_time),
                             MinutesOf(store[j].start_time, store[j].end_time))

\* C5: the insert of addReservation appends one row with status confirmed,
\* the request's requiresPayment, payment_status pending when payment is
\* required and not_required when it is not, and no proof URL, verification
\* time or verifier; addReservation then returns true.
C5_InsertedRow ==
    [][\A s \in Sessions :
          AddReservationInsert(s) =>
              LET row == store'[Len(store')]
                  reservationData == pc[s].reservationData
              IN /\ Len(store') = Len(store) + 1
                 /\ outcome'[s] = "addReservation:true"
                 /\ row.status = "confirmed"
                 /\ row.requires_payment = reservationData.requiresPayment
                 /\ row.payment_status =
                        (IF reservationData.requiresPayment THEN "pending"
                                                            ELSE "not_required")
                 /\ row.payment_proof_url = Null
                 /\ row.payment_verified_at = Null
                 /\ row.payment_verified_by = Null]_vars

\* C5 witness: a booking of space P and one of space R have both returned true
C5_Witness ==
    /\ \A s \in Sessions : outcome[s] = "addReservation:true"
    /\ \E i \in DOMAIN store :
           store[i].requires_payment /\ store[i].payment_status = "pending"
    /\ \E i \in DOMAIN store :
           ~ store[i].requires_payment /\ store[i].payment_status = "not_required"

-----------------------------------------------------------------------------
(* The payment workflow: claims on Spec *)

\* C6: payment_status is not_required exactly for the reservations that do
\* not require payment.
C6_NotRequiredIffNoPayment ==
    \A i \in DOMAIN store :
        (store[i].payment_status = "not_required") <=> ~ store[i].requires_payment

\* C6 witness: a reservation that requires payment was submitted, put back to
\* pending and cancelled
C6_Witness ==
    \E i \in DOMAIN store :
        /\ store[i].requires_payment
        /\ store[i].status = "cancelled"
        /\ store[i].payment_status = "pending"
        /\ store[i].payment_proof_url # Null

\* C7: verification time and verifier are both set on a verified reservation
\* and both null on any other.
C7_VerifiedFields ==
    \A i \in DOMAIN store :
        IF store[i].payment_status = "verified"
        THEN store[i].payment_verified_at # Null /\ store[i].payment_verified_by # Null
        ELSE store[i].payment_verified_at = Null /\ store[i].payment_verified_by = Null

\* C7 witness: the administrator's verification has just succeeded
C7_Witness ==
    /\ outcome["a1"] = "success"
    /\ \E i \in DOMAIN store :
           /\ store[i].payment_status = "verified"
           /\ store[i].payment_verified_by = Some(Principal("a1").id)

PaymentTransitions ==
    {<<"pending", "submitted">>, <<"submitted", "verified">>,
     <<"submitted", "pending">>, <<"verified", "pending">>,
     <<"pending", "verified">>}

\* C8: every change of a reservation's payment_status is one of pending ->
\* submitted, submitted -> verified, submitted -> pending, verified -> pending,
\* pending -> verified.
C8_OnlyListedTransitions ==
    [][\A i \in DOMAIN store :
          (i \in DOMAIN store' /\ store'[i].payment_status # store[i].payment_status)
              => <<store[i].payment_status, store'[i].payment_status>>
                     \in PaymentTransitions]_vars

\* C9: a reservation is verified only with a proof URL, and handleVerifyPayment
\* called for a reservation shown without proof URL, with no file selected,
\* reports the missing proof and sends nothing to the table.
C9_VerifyNeedsProof ==
    /\ [](\A i \in DOMAIN store :
              store[i].payment_status = "verified" => store[i].payment_proof_url # Null)
    /\ [][\A s \in Sessions : \A reservation \in Held :
              (/\ handleVerifyPayment(s, reservation)
               /\ reservation.paymentProofUrl = Null
               /\ reservation.id \notin paymentProofs[s])
              => /\ outcome'[s] = "handleVerifyPayment:no-proof"
                 /\ pc'[s] = Idle
                 /\ store' = store]_vars

\* C9 witness: the administrator asked to verify a pending reservation that has
\* no proof and was told so
C9_Witness ==
    /\ outcome["a1"] = "handleVerifyPayment:no-proof"
    /\ pc["a1"] = Idle
    /\ \E i \in DOMAIN store :
           /\ store[i].payment_status = "pending"
           /\ store[i].payment_proof_url = Null

\* C10: the update of handleMarkPaymentPending changes payment_status to
\* pending and verification time and verifier to null and nothing else, the
\* proof URL included; the administrator then sees the proof URL, and
\* handleVerifyPayment on the pending reservation sends verified with that URL.
C10_ResetKeepsProof ==
    [][\A s \in Sessions :
          /\ (UpdateReservationPaymentUpdate(s)
                  /\ pc[s].op = "handleMarkPaymentPending")
             => \A i \in DOMAIN store :
                    /\ store'[i] =
                           IF store[i].id = pc[s].id
                           THEN [store[i] EXCEPT !.payment_status = "pending",
                                                 !.payment_verified_at = Null,
                                                 !.payment_verified_by = Null]
                           ELSE store[i]
                    /\ \E reservation \in Range(reservations'[s]) :
                           /\ reservation.id = store[i].id
                           /\ reservation.paymentProofUrl = store[i].payment_proof_url
          /\ \A reservation \in Held :
                (/\ handleVerifyPayment(s, reservation)
                 /\ reservation.paymentStatus = "pending"
                 /\ reservation.paymentProofUrl # Null)
                => /\ pc'[s].op = "handleVerifyPayment"
                   /\ pc'[s].step = "update"
                   /\ pc'[s].payload.payment_status = "verified"
                   /\ pc'[s].payload.payment_proof_url = reservation.paymentProofUrl]_vars

\* C10 witness: a reservation put back to pending keeps its proof, and the
\* administrator's next verification is on its way with the same URL
C10_Witness ==
    /\ pc["a1"].op = "handleVerifyPayment"
    /\ \E i \in DOMAIN store :
           /\ store[i].id = pc["a1"].id
           /\ store[i].payment_status = "pending"
           /\ store[i].payment_proof_url # Null
           /\ pc["a1"].payload.payment_proof_url = store[i].payment_proof_url

-----------------------------------------------------------------------------
(* The requester's submission with a bucket that may refuse *)

\* an upload failure after which the handler goes on to its update all the same
UploadPaymentProofThrowIgnored(s) ==
    /\ pc[s].op \in PaymentOps /\ pc[s].step = "upload"
    /\ CallUpdateReservationPayment(s, pc[s].op, pc[s].id,
           [paymentStatus |-> Some("submitted"), paymentProofUrl |-> Null], now)
    /\ outcome' = [outcome EXCEPT ![s] = "uploadPaymentProof:error"]
    /\ UNCHANGED <<store, now, nextUpload, reservations, paymentProofs, probe,
                   events, loads, reservationsError,
                   user, isAuthLoading, channels>>

\* uploadPaymentProof throws because storage answers the upload with an error:
\* the catch of the handler shows the message and nothing else is called
UploadPaymentProofThrow(s) ==
    /\ pc[s].op \in PaymentOps /\ pc[s].step = "upload"
    /\ pc' = [pc EXCEPT ![s] = Idle]
    /\ outcome' = [outcome EXCEPT ![s] = "uploadPaymentProof:error"]
    /\ UNCHANGED <<store, now, nextUpload, reservations, paymentProofs, probe,
                   events, loads, reservationsError,
                   user, isAuthLoading, channels>>

\* uploadPaymentProof throws because getPublicUrl gives no URL for the object
\* it has stored
UploadPaymentProofNoUrl(s) ==
    /\ pc[s].op \in PaymentOps /\ pc[s].step = "upload"
    /\ nextUpload' = nextUpload + 1
    /\ pc' = [pc EXCEPT ![s] = Idle]
    /\ outcome' = [outcome EXCEPT ![s] = "uploadPaymentProof:error"]
    /\ UNCHANGED <<store, now, reservations, paymentProofs, probe,
                   events, loads, reservationsError,
                   user, isAuthLoading, channels>>

NextFaults ==
    \E s \in Sessions :
        \/ \E request \in Requests :
               /\ ~ isAdminView(s)
               /\ Committed < MaxReservations
               /\ AddReservationCheck(s, request)
        \/ HandlerStep(s)
        \/ \E reservation \in Held, hasFile \in BOOLEAN :
               handlePaymentFileChange(s, reservation, hasFile)
        \/ \E reservation \in Held : handleSubmitPaymentProof(s, reservation)
        \/ UploadPaymentProofReturn(s)
        \/ UploadPaymentProofThrow(s)
        \/ UploadPaymentProofNoUrl(s)
        \/ UpdateReservationPaymentUpdate(s)
        \/ ChangeEventLoad(s)

SpecFaults == Init /\ [][NextFaults]_vars

\* C11: handleSubmitPaymentProof with no file selected reports it and starts
\* neither an upload nor an update; an upload that fails ends the handler with
\* an error report and no update; neither step changes a row of the table.
C11_FailedSubmitWritesNothing ==
    [][\A s \in Sessions :
          /\ \A reservation \in Held :
                (/\ handleSubmitPaymentProof(s, reservation)
                 /\ reservation.id \notin paymentProofs[s])
                => /\ outcome'[s] = "handleSubmitPaymentProof:no-file"
                   /\ pc'[s] = Idle
                   /\ nextUpload' = nextUpload
                   /\ store' = store
          /\ (UploadPaymentProofThrow(s) \/ UploadPaymentProofNoUrl(s))
                => /\ outcome'[s] = "uploadPaymentProof:error"
                   /\ pc'[s] = Idle
                   /\ store' = store]_vars

\* C11 witness: a submission has failed at its upload and the reservation is
\* still pending without a proof
C11_Witness ==
    /\ outcome["m1"] = "uploadPaymentProof:error"
    /\ pc["m1"] = Idle
    /\ \E i \in DOMAIN store :
           /\ i \in paymentProofs["m1"]
           /\ store[i].payment_status = "pending"
           /\ store[i].payment_proof_url = Null

-----------------------------------------------------------------------------
(* updateReservationPayment as the context hands it out: called by any     *)
(* consumer of useReservations(), in the session of any signed-in user     *)

\* the updates a caller may pass for a reservation it holds: the status with
\* no URL named, or with the reservation's own URL
PaymentUpdates(reservation) ==
    {[paymentStatus |-> Some(st), paymentProofUrl |-> url] :
        st \in {"submitted", "verified", "pending"},
        url \in {Null, Some(reservation.paymentProofUrl)}}

\* updateReservationPayment(id, updates) up to its update request; isoNow is
\* what new Date() gives when the call reads it
updateReservationPayment(s, reservation, updates, isoNow) ==
    /\ pc[s] = Idle
    /\ reservation \in {reservations[s][i] : i \in DOMAIN reservations[s]}
    /\ IF updates.paymentStatus = Some("verified")
       THEN /\ ReadClock(isoNow)
            /\ CallUpdateReservationPayment(s, "updateReservationPayment",
                       reservation.id, updates, isoNow)
       ELSE /\ isoNow = now
            /\ CallUpdateReservationPayment(s, "updateReservationPayment",
                       reservation.id, updates, now)
            /\ UNCHANGED now
    /\ outcome' = [outcome EXCEPT ![s] = "none"]
    /\ UNCHANGED <<store, nextUpload, reservations, paymentProofs, probe,
                   events, loads, reservationsError,
                   user, isAuthLoading, channels>>

NextApi ==
    \E s \in Sessions :
        \/ \E request \in Requests :
               /\ ~ isAdminView(s)
               /\ Committed < MaxReservations
               /\ AddReservationCheck(s, request)
        \/ AddReservationInsert(s)
        \/ \E reservation \in Held :
               \E updates \in PaymentUpdates(reservation), t \in now..MaxClock :
                   updateReservationPayment(s, reservation, updates, t)
        \/ UpdateReservationPaymentUpdate(s)
        \/ ChangeEventLoad(s)

SpecApi == Init /\ [][NextApi]_vars

\* C12: updateReservationPayment called for verified or pending in the session
\* of a user who is not admin is refused before anything is sent to the table,
\* and every verified reservation was verified by an admin.
C12_VerifyAndResetAdminOnly ==
    /\ [][\A s \in Sessions : \A reservation \in Held :
              \A updates \in PaymentUpdates(reservation), t \in now..MaxClock :
                  (/\ updateReservationPayment(s, reservation, updates, t)
                   /\ Principal(s).role # "admin"
                   /\ updates.paymentStatus \in {Some("verified"), Some("pending")})
                  => pc'[s] = Idle /\ store' = store]_vars
    /\ [](\A i \in DOMAIN store :
              store[i].payment_status = "verified"
                  => \E s \in Sessions :
                         /\ Principal(s).role = "admin"
                         /\ store[i].payment_verified_by = Some(Principal(s).id))

\* C13: no step changes payment_status, payment_proof_url, payment_verified_at
\* or payment_verified_by of a reservation that does not require payment.
C13_NoPaymentChangeWithoutRequirement ==
    [][\A i \in DOMAIN store :
          (i \in DOMAIN store' /\ ~ store[i].requires_payment)
              => /\ store'[i].payment_status = store[i].payment_status
                 /\ store'[i].payment_proof_url = store[i].payment_proof_url
                 /\ store'[i].payment_verified_at = store[i].payment_verified_at
                 /\ store'[i].payment_verified_by = store[i].payment_verified_by]_vars

-----------------------------------------------------------------------------
(* Cancellation: claims on Spec *)

\* C14: every row of the table stays in the table with its id, and a row that
\* is cancelled is cancelled after every step.
C14_CancelledStaysAndNothingDeleted ==
    [][/\ Len(store') >= Len(store)
       /\ \A i \in DOMAIN store :
             /\ i \in DOMAIN store'
             /\ store'[i].id = store[i].id
             /\ store[i].status = "cancelled" => store'[i].status = "cancelled"]_vars

\* C14 witness: a reservation was cancelled by its requester and its payment
\* verified by the administrator, and the row is there, cancelled
C14_Witness ==
    /\ outcome["m1"] = "cancelReservation:done"
    /\ outcome["a1"] = "success"
    /\ \E i \in DOMAIN store :
           /\ store[i].status = "cancelled"
           /\ store[i].payment_status = "verified"

\* C15: cancelReservation for a reservation that is already cancelled ends
\* without error and leaves the table as it was.
C15_CancelTwiceIsCancelOnce ==
    [][\A s \in Sessions :
          (/\ CancelReservationUpdate(s)
           /\ \E i \in DOMAIN store :
                  store[i].id = pc[s].id /\ store[i].status = "cancelled")
          => /\ store' = store
             /\ outcome'[s] = "cancelReservation:done"]_vars

\* C15 witness: requester and administrator have both cancelled the one
\* reservation of the table
C15_Witness ==
    /\ Len(store) = 1
    /\ store[1].status = "cancelled"
    /\ \A s \in Sessions : outcome[s] = "cancelReservation:done"

-----------------------------------------------------------------------------
(* The cancellation rule on its own: a reservation of any status, starting *)
(* today or tomorrow, shown at any half hour of today's morning            *)

Statuses == {"confirmed", "upcoming", "in-progress", "completed", "cancelled"}

\* days from Day to the date
DayNumber(date) == IF date = Day THEN 0 ELSE 1

\* the start of a reservation in minutes since 00:00 of Day
StartInstant(date, startTime) == DayNumber(date) * 1440 + timeToMinutes(startTime)

\* isWithin24Hours of utils/dateUtils: the start is less than 24 hours from
\* the instant, given in minutes since 00:00 of Day
isWithin24Hours(date, startTime, instant) ==
    StartInstant(date, startTime) - instant < 24 * 60

\* probe.a is the reservation shown and probe.b the instant
InitCancelRule ==
    /\ store = <<>>
    /\ now = 0
    /\ nextUpload = 1
    /\ Quiet
    /\ SignedIn
    /\ reservations = [s \in Sessions |-> <<>>]
    /\ pc = [s \in Sessions |-> Idle]
    /\ paymentProofs = [s \in Sessions |-> {}]
    /\ outcome = [s \in Sessions |-> "none"]
    /\ probe \in [a : [status : Statuses, date : {Day, NextDay},
                       startTime : {TimeOfDay(0), TimeOfDay(2)}],
                  b : {30 * k : k \in 0..MaxHalfHours},
                  ab : {Null}, ba : {Null}]

\* the list is rendered: canCancelReservation(reservation)
TestCanCancel ==
    /\ probe.ab = Null
    /\ probe' = [probe EXCEPT !.ab =
                    Some(canCancelReservation(probe.a,
                             isWithin24Hours(probe.a.date, probe.a.startTime,
                                             probe.b)))]
    /\ UNCHANGED <<store, now, nextUpload, reservations, pc, paymentProofs,
                   outcome, events, loads, reservationsError,
                   user, isAuthLoading, channels>>

NextCancelRule == TestCanCancel

SpecCancelRule == InitCancelRule /\ [][NextCancelRule]_vars

\* minutes from the instant to the start of the reservation
MinutesAhead(reservation, instant) ==
    StartInstant(reservation.date, reservation.startTime) - instant

\* C16: canCancelReservation is true exactly when the status is neither
\* cancelled nor completed and the start is at least 24 hours after the
\* instant; 23 hours ahead it is false, and 25 hours ahead it is true for a
\* reservation neither cancelled nor completed.
C16_CancellableIffActiveAndDayAhead ==
    probe.ab # Null =>
        /\ probe.ab[1] = (/\ probe.a.status \notin {"cancelled", "completed"}
                          /\ MinutesAhead(probe.a, probe.b) >= 1440)
        /\ MinutesAhead(probe.a, probe.b) = 23 * 60 => ~ probe.ab[1]
        /\ (MinutesAhead(probe.a, probe.b) = 25 * 60
                /\ probe.a.status \notin {"cancelled", "completed"}) => probe.ab[1]

\* C16 witness: a confirmed reservation of tomorrow 09:00 shown today at 08:00,
\* 25 hours ahead, is cancellable
C16_Witness ==
    /\ probe.a = [status |-> "confirmed", date |-> NextDay, startTime |-> TimeOfDay(0)]
    /\ probe.b = 8 * 60
    /\ probe.ab = Some(TRUE)

-----------------------------------------------------------------------------
(* Cancelled reservations and new bookings: claim on SpecBooking *)

\* the table holds a cancelled reservation of the request's space, day, start
\* and end
CancelledTwin(table, request) ==
    \E i \in DOMAIN table :
        /\ table[i].status = "cancelled"
        /\ table[i].space_id = request.spaceId
        /\ table[i].date = request.date
        /\ table[i].start_time = request.startTime
        /\ table[i].end_time = request.endTime

\* C17: a request for the space, day and interval of a cancelled reservation,
\* overlapped by no reservation of that space and day that is not cancelled,
\* passes the check of addReservation, and its insert appends the row and
\* returns true.
C17_CancelledNeverBlocks ==
    [][\A s \in Sessions :
          /\ \A request \in BookingRequests :
                (/\ AddReservationCheck(s, request)
                 /\ CancelledTwin(store, request)
                 /\ ~ ActiveOverlap(store, request))
                => pc'[s].op = "addReservation"
          /\ (AddReservationInsert(s) /\ CancelledTwin(store, pc[s].reservationData))
                => /\ Len(store') = Len(store) + 1
                   /\ store'[Len(store')].status = "confirmed"
                   /\ outcome'[s] = "addReservation:true"]_vars

\* C17 witness: a reservation was cancelled and its space, day and interval
\* booked again
C17_Witness ==
    /\ Len(store) = 2
    /\ store[1].status = "cancelled"
    /\ store[2].status = "confirmed"
    /\ store[1].space_id = store[2].space_id
    /\ store[1].date = store[2].date
    /\ store[1].start_time = store[2].start_time
    /\ store[1].end_time = store[2].end_time
    /\ \E s \in Sessions : outcome[s] = "addReservation:true"

-----------------------------------------------------------------------------
(* The projections on their own: getUserReservations and                   *)
(* getSpaceReservations over the reservations loaded from any table of     *)
(* up to MaxRows rows                                                      *)

\* who booked a row, whether it was cancelled since, and its space and day
RowChoices ==
    [userId : {Principal(s).id : s \in Sessions},
     status : {"confirmed", "cancelled"},
     place : {<<"R", Day>>, <<"R", NextDay>>, <<"P", Day>>}]

\* the table after the bookings, one hour each from 09:00 on, and the
\* cancellations the choices tell
TableOf(choices) ==
    [i \in DOMAIN choices |->
        [NewRow(i, [spaceId |-> choices[i].place[1],
                    userId |-> choices[i].userId,
                    date |-> choices[i].place[2],
                    startTime |-> TimeOfDay(2 * (i - 1)),
                    endTime |-> TimeOfDay(2 * i),
                    requiresPayment |-> (choices[i].place[1] = "P")])
            EXCEPT !.status = choices[i].status]]

Tables == {TableOf(choices) : choices \in UNION {[1..n -> RowChoices] : n \in 0..MaxRows}}

InitReadModel ==
    /\ store \in Tables
    /\ now = 0
    /\ nextUpload = 1
    /\ Quiet
    /\ SignedIn
    /\ reservations = [s \in Sessions |-> LoadedReservations(Principal(s), store)]
    /\ pc = [s \in Sessions |-> Idle]
    /\ paymentProofs = [s \in Sessions |-> {}]
    /\ outcome = [s \in Sessions |-> "none"]
    /\ probe = NoProbe

\* a consumer calls getUserReservations(userId): probe.a is the call, probe.b
\* the session and probe.ab the result
TestGetUserReservations(s, userId) ==
    /\ probe.ab = Null
    /\ probe' = [a |-> <<"getUserReservations", userId>>, b |-> s,
                 ab |-> Some(getUserReservations(s, userId)), ba |-> Null]
    /\ UNCHANGED <<store, now, nextUpload, reservations, pc, paymentProofs,
                   outcome, events, loads, reservationsError,
                   user, isAuthLoading, channels>>

\* a consumer calls getSpaceReservations(spaceId, date)
TestGetSpaceReservations(s, spaceId, date) ==
    /\ probe.ab = Null
    /\ probe' = [a |-> <<"getSpaceReservations", spaceId, date>>, b |-> s,
                 ab |-> Some(getSpaceReservations(s, spaceId, Some(date))),
                 ba |-> Null]
    /\ UNCHANGED <<store, now, nextUpload, reservations, pc, paymentProofs,
                   outcome, events, loads, reservationsError,
                   user, isAuthLoading, channels>>

NextReadModel ==
    \E s \in {"m1"} :
        \/ \E userId \in {Principal(x).id : x \in Sessions} :
               TestGetUserReservations(s, userId)
        \/ \E spaceId \in {"P", "R"}, date \in {Day, NextDay} :
               TestGetSpaceReservations(s, spaceId, date)

SpecReadModel == InitReadModel /\ [][NextReadModel]_vars

\* every element once
NoRepeats(list) == Cardinality(Range(list)) = Len(list)

\* C18: getUserReservations(u) holds exactly the reservations of the session
\* with userId u that are not cancelled, each once, a later createdAt before
\* an earlier one; getSpaceReservations(sp, d) holds exactly the reservations
\* of the session with spaceId sp and date d that are not cancelled, each once.
C18_ProjectionsExact ==
    probe.ab # Null =>
        LET result == probe.ab[1]
            held == Range(reservations[probe.b])
        IN IF probe.a[1] = "getUserReservations"
           THEN /\ Range(result) =
                       {r \in held : r.userId = probe.a[2] /\ r.status # "cancelled"}
                /\ NoRepeats(result)
                /\ \A i \in DOMAIN result : \A j \in DOMAIN result :
                       i < j => result[i].createdAt >= result[j].createdAt
           ELSE /\ Range(result) =
                       {r \in held : /\ r.spaceId = probe.a[2]
                                     /\ r.date = probe.a[3]
                                     /\ r.status # "cancelled"}
                /\ NoRepeats(result)

\* C18 witness: of three reservations held, one of them a cancelled one of u1,
\* getUserReservations("u1") gave the other two
C18_Witness ==
    /\ probe.ab # Null
    /\ probe.a = <<"getUserReservations", "u1">>
    /\ Len(reservations[probe.b]) = 3
    /\ \E r \in Range(reservations[probe.b]) :
           r.userId = "u1" /\ r.status = "cancelled"
    /\ Len(probe.ab[1]) = 2

-----------------------------------------------------------------------------
(* Writes and refreshes step by step: the write, the change events it      *)
(* raises for every subscribed session, the loadReservations the writer    *)
(* awaits, and the loadReservations of the change channel, whose answers   *)
(* arrive in any order                                                     *)

\* the table raises a change event on every subscribed channel
Notify ==
    /\ \A s \in Sessions : events[s] + channels[s] <= MaxEvents
    /\ events' = [s \in Sessions |-> events[s] + channels[s]]

\* the handler is at its await loadReservations()
AwaitingLoad(caller, id, payload) ==
    [op |-> "loadReservations", caller |-> caller, id |-> id, payload |-> payload]

\* addReservation putting the new reservation into the session's list itself
AddReservationInsertedIntoList(s) ==
    /\ pc[s].op = "addReservation"
    /\ store' = Append(store, NewRow(Len(store) + 1, pc[s].reservationData))
    /\ reservations' = [reservations EXCEPT ![s] =
           <<FormatReservation(Principal(s), store'[Len(store')])>> \o @]
    /\ Notify
    /\ pc' = [pc EXCEPT ![s] =
                 AwaitingLoad("addReservation", Len(store) + 1, [status |-> "confirmed"])]
    /\ UNCHANGED <<now, nextUpload, paymentProofs, outcome, probe,
                   loads, reservationsError, user, isAuthLoading, channels>>

\* addReservation: the insert is answered without error
AddReservationInserted(s) ==
    /\ pc[s].op = "addReservation"
    /\ store' = Append(store, NewRow(Len(store) + 1, pc[s].reservationData))
    /\ Notify
    /\ pc' = [pc EXCEPT ![s] =
                 AwaitingLoad("addReservation", Len(store) + 1, [status |-> "confirmed"])]
    /\ UNCHANGED <<now, nextUpload, reservations, paymentProofs, outcome, probe,
                   loads, reservationsError,
                   user, isAuthLoading, channels>>

\* cancelReservation: the update is answered without error
CancelReservationUpdated(s) ==
    /\ pc[s].op = "cancelReservation"
    /\ store' = UpdateById(store, pc[s].id, [status |-> "cancelled"])
    /\ Notify
    /\ pc' = [pc EXCEPT ![s] =
                 AwaitingLoad("cancelReservation", pc[s].id, [status |-> "cancelled"])]
    /\ UNCHANGED <<now, nextUpload, reservations, paymentProofs, outcome, probe,
                   loads, reservationsError,
                   user, isAuthLoading, channels>>

\* updateReservationPayment: the update is answered without error
UpdateReservationPaymentUpdated(s) ==
    /\ pc[s].op \in UpdateCallers /\ pc[s].step = "update"
    /\ store' = UpdateById(store, pc[s].id, pc[s].payload)
    /\ Notify
    /\ pc' = [pc EXCEPT ![s] =
                 AwaitingLoad("updateReservationPayment", pc[s].id, pc[s].payload)]
    /\ UNCHANGED <<now, nextUpload, reservations, paymentProofs, outcome, probe,
                   loads, reservationsError,
                   user, isAuthLoading, channels>>

\* what the caller is told when the function returns after its write
Returned(caller) ==
    IF caller = "addReservation" THEN "addReservation:true"
    ELSE IF caller = "cancelReservation" THEN "cancelReservation:done"
    ELSE "success"

\* the awaited loadReservations gets its rows: setReservations, and the
\* function returns
AwaitedLoadReturn(s) ==
    /\ pc[s].op = "loadReservations"
    /\ reservations' = [reservations EXCEPT ![s] = LoadedReservations(Principal(s), store)]
    /\ reservationsError' = [reservationsError EXCEPT ![s] = FALSE]
    /\ outcome' = [outcome EXCEPT ![s] = Returned(pc[s].caller)]
    /\ pc' = [pc EXCEPT ![s] = Idle]
    /\ UNCHANGED <<store, now, nextUpload, paymentProofs, probe, events, loads,
                   user, isAuthLoading, channels>>

\* the awaited loadReservations gets an error: setReservationsError, the
\* reservations stay, and the function returns as after a load
AwaitedLoadError(s) ==
    /\ pc[s].op = "loadReservations"
    /\ reservationsError' = [reservationsError EXCEPT ![s] = TRUE]
    /\ outcome' = [outcome EXCEPT ![s] = Returned(pc[s].caller)]
    /\ pc' = [pc EXCEPT ![s] = Idle]
    /\ UNCHANGED <<store, now, nextUpload, reservations, paymentProofs, probe,
                   events, loads,
                   user, isAuthLoading, channels>>

\* the postgres_changes callback runs: loadReservations sends its select,
\* which the table answers from its rows of that moment
ChangeEvent(s) ==
    /\ events[s] > 0
    /\ Cardinality(loads[s]) < MaxLoads
    /\ events' = [events EXCEPT ![s] = @ - 1]
    /\ loads' = [loads EXCEPT ![s] = @ \cup {LoadedReservations(Principal(s), store)}]
    /\ UNCHANGED <<store, now, nextUpload, reservations, pc, paymentProofs,
                   outcome, probe, reservationsError,
                   user, isAuthLoading, channels>>

\* one of the answers on their way arrives: setReservations
ChangeEventLoadReturn(s) ==
    /\ \E data \in loads[s] :
           /\ reservations' = [reservations EXCEPT ![s] = data]
           /\ loads' = [loads EXCEPT ![s] = @ \ {data}]
    /\ reservationsError' = [reservationsError EXCEPT ![s] = FALSE]
    /\ UNCHANGED <<store, now, nextUpload, pc, paymentProofs, outcome, probe,
                   events,
                   user, isAuthLoading, channels>>

\* a member books the space that requires payment
BookCall(s) ==
    \E request \in Requests :
        /\ ~ isAdminView(s)
        /\ request.requiresPayment
        /\ Committed < MaxReservations
        /\ AddReservationCheck(s, request)

\* a member cancels a reservation shown as confirmed
CancelCall(s) ==
    \E reservation \in Range(reservations[s]) :
        /\ ~ isAdminView(s)
        /\ reservation.status = "confirmed"
        /\ handleCancelReservation(s, reservation)

\* an administrator verifies a reservation not shown as verified
VerifyCall(s) ==
    \E reservation \in Range(reservations[s]) :
        /\ isAdminView(s)
        /\ reservation.paymentStatus # "verified"
        /\ \E t \in now..MaxClock :
               updateReservationPayment(s, reservation,
                   [paymentStatus |-> Some("verified"), paymentProofUrl |-> Null], t)

\* the calls a session makes on the reservations it sees
RefreshCalls(s) == BookCall(s) \/ CancelCall(s) \/ VerifyCall(s)

NextRefresh ==
    \E s \in Sessions :
        \/ RefreshCalls(s)
        \/ AddReservationInserted(s)
        \/ CancelReservationUpdated(s)
        \/ UpdateReservationPaymentUpdated(s)
        \/ AwaitedLoadReturn(s)
        \/ AwaitedLoadError(s)
        \/ ChangeEvent(s)
        \/ ChangeEventLoadReturn(s)

\* every change event is delivered and every select of the change channel is
\* answered
SpecRefresh ==
    /\ Init
    /\ [][NextRefresh]_vars
    /\ \A s \in Sessions : /\ WF_vars(ChangeEvent(s))
                           /\ WF_vars(ChangeEventLoadReturn(s))
                           /\ WF_vars(AwaitedLoadReturn(s) \/ AwaitedLoadError(s))

\* C19: from some state on, the reservations of every session are the rows of
\* the table, for good.
C19_EventuallyConsistent ==
    <>[](\A s \in Sessions : reservations[s] = LoadedReservations(Principal(s), store))

\* the write a returning call made shows in the list: the row of its id is
\* there, cancelled after a cancellation, with the written payment status after
\* a payment update
ShowsWrite(call, list) ==
    \E reservation \in Range(list) :
        /\ reservation.id = call.id
        /\ call.caller = "cancelReservation" => reservation.status = "cancelled"
        /\ call.caller = "updateReservationPayment" =>
               reservation.paymentStatus = call.payload.payment_status

\* the write of a session is answered without error
WriteAnswered(s) ==
    \/ AddReservationInserted(s)
    \/ CancelReservationUpdated(s)
    \/ UpdateReservationPaymentUpdated(s)

\* the call of a session returns
CallReturns(s) == pc[s].op = "loadReservations" /\ pc'[s] = Idle

\* C20: an answered write is followed by a loadReservations, and
\* when the call returns the reservations of the session show the write.
C20_CompletionShowsWrite ==
    [][\A s \in Sessions :
           /\ WriteAnswered(s) => pc'[s].op = "loadReservations"
           /\ CallReturns(s) => ShowsWrite(pc[s], reservations'[s])]_vars

-----------------------------------------------------------------------------
(* addReservation called with any start and end of the grid, also an end   *)
(* at or before the start                                                  *)

\* the interval a caller may pass: any two half hours from 09:00 to 10:00
IntervalRequests ==
    {BookingRequest("R", Day, <<TimeOfDay(i), TimeOfDay(j)>>) : i \in 0..2, j \in 0..2}

NextIntervals ==
    \E s \in Sessions :
        \/ \E request \in IntervalRequests :
               Committed < MaxBookings /\ AddReservationCheck(s, request)
        \/ AddReservationInsert(s)
        \/ ChangeEventLoad(s)

SpecIntervals == Init /\ [][NextIntervals]_vars

\* C21: a call of addReservation with an end at or before its start is refused,
\* so no stored reservation has its end at or before its start.
C21_EndAfterStart ==
    \A i \in DOMAIN store :
        timeToMinutes(store[i].start_time) < timeToMinutes(store[i].end_time)

-----------------------------------------------------------------------------
(* What a session holds of other users: claim on SpecBooking *)

\* C22: the reservations of a member's session are the member's own and carry
\* no requester name or contact; those of an administrator's session carry the
\* requester's name and contact.
C22_RoleScopedSet ==
    \A s \in Sessions : \A reservation \in Range(reservations[s]) :
        IF Principal(s).role = "admin"
        THEN /\ reservation.userName = Profile(reservation.userId).full_name
             /\ reservation.userContact = Profile(reservation.userId).phone
        ELSE /\ reservation.userId = Principal(s).id
             /\ reservation.userName = ""
             /\ reservation.userContact = ""

-----------------------------------------------------------------------------
(* Signing in and out: useAuth() hands the provider a new user or a new    *)
(* isLoading, and the subscription effect runs its cleanup and its body    *)

\* the run of the effect got past both returns: it called loadReservations
\* and subscribed a channel, which its cleanup removes
Subscribed(u, loading) == ~ loading /\ u # Null

\* the effect without the removeChannel of its cleanup
AuthChangeKeepsChannel(s, u, loading) ==
    LET is == Subscribed(u, loading) IN
    /\ <<u, loading>> # <<user[s], isAuthLoading[s]>>
    /\ ~ (u = Null /\ loading /\ user[s] # Null)
    /\ user' = [user EXCEPT ![s] = u]
    /\ isAuthLoading' = [isAuthLoading EXCEPT ![s] = loading]
    /\ channels' = [channels EXCEPT ![s] = @ + (IF is THEN 1 ELSE 0)]
    /\ channels'[s] <= MaxEvents
    /\ UNCHANGED events
    /\ IF loading
       THEN UNCHANGED <<reservations, reservationsError, loads>>
       ELSE IF u = Null
       THEN /\ reservations' = [reservations EXCEPT ![s] = <<>>]
            /\ reservationsError' = [reservationsError EXCEPT ![s] = FALSE]
            /\ UNCHANGED loads
       ELSE /\ Cardinality(loads[s]) < MaxLoads
            /\ loads' = [loads EXCEPT ![s] = @ \cup {LoadedReservations(u[1], store)}]
            /\ UNCHANGED <<reservations, reservationsError>>
    /\ UNCHANGED <<store, now, nextUpload, pc, paymentProofs, outcome, probe>>

\* useAuth() changes to user u and isLoading loading.  The loss of the user
\* is reported with isLoading false.
AuthChange(s, u, loading) ==
    LET was == Subscribed(user[s], isAuthLoading[s])
        is == Subscribed(u, loading)
    IN
    /\ <<u, loading>> # <<user[s], isAuthLoading[s]>>
    /\ ~ (u = Null /\ loading /\ user[s] # Null)
    /\ user' = [user EXCEPT ![s] = u]
    /\ isAuthLoading' = [isAuthLoading EXCEPT ![s] = loading]
    /\ channels' = [channels EXCEPT ![s] =
                       (IF was THEN @ - 1 ELSE @) + (IF is THEN 1 ELSE 0)]
    /\ events' = [events EXCEPT ![s] = IF was THEN 0 ELSE @]
    /\ IF loading
       THEN UNCHANGED <<reservations, reservationsError, loads>>
       ELSE IF u = Null
       THEN /\ reservations' = [reservations EXCEPT ![s] = <<>>]
            /\ reservationsError' = [reservationsError EXCEPT ![s] = FALSE]
            /\ UNCHANGED loads
       ELSE /\ Cardinality(loads[s]) < MaxLoads
            /\ loads' = [loads EXCEPT ![s] = @ \cup {LoadedReservations(u[1], store)}]
            /\ UNCHANGED <<reservations, reservationsError>>
    /\ UNCHANGED <<store, now, nextUpload, pc, paymentProofs, outcome, probe>>

\* both sessions book, cancel and verify; the member signs out and in
NextSession ==
    \E s \in Sessions :
        \/ user[s] # Null /\ RefreshCalls(s)
        \/ AddReservationInserted(s)
        \/ CancelReservationUpdated(s)
        \/ UpdateReservationPaymentUpdated(s)
        \/ AwaitedLoadReturn(s)
        \/ AwaitedLoadError(s)
        \/ ChangeEvent(s)
        \/ ChangeEventLoadReturn(s)
        \/ \E u \in {Null, Some(Principal(s))}, loading \in BOOLEAN :
               ~ isAdminView(s) /\ AuthChange(s, u, loading)

SpecSession == Init /\ [][NextSession]_vars

\* the member books; both sessions sign out and in
NextSubscription ==
    \E s \in Sessions :
        \/ user[s] # Null /\ BookCall(s)
        \/ AddReservationInserted(s)
        \/ AwaitedLoadReturn(s)
        \/ ChangeEvent(s)
        \/ ChangeEventLoadReturn(s)
        \/ \E u \in {Null, Some(Principal(s))}, loading \in BOOLEAN :
               AuthChange(s, u, loading)

SpecSubscription == Init /\ [][NextSubscription]_vars

\* C24: a session has one channel subscribed while it has a user and
\* isLoading is false, and none otherwise; and a change event leaves the
\* session only by starting one loadReservations, or with its channel.
C24_OneSubscriptionWhileSignedIn ==
    /\ [](\A s \in Sessions :
              channels[s] = IF user[s] # Null /\ ~ isAuthLoading[s] THEN 1 ELSE 0)
    /\ [][\A s \in Sessions :
              events'[s] < events[s] =>
                  \/ /\ events'[s] = events[s] - 1
                     /\ channels'[s] = channels[s]
                     /\ user'[s] = user[s]
                     /\ \E data \in loads'[s] :
                            /\ data = LoadedReservations(user[s][1], store)
                            /\ loads'[s] \ {data} = loads[s] \ {data}
                  \/ /\ <<user'[s], isAuthLoading'[s]>> # <<user[s], isAuthLoading[s]>>
                     /\ events'[s] = 0]_vars

\* the member has signed out and has no channel, while the administrator's
\* channel has started a loadReservations
C24_Witness ==
    /\ user["m1"] = Null
    /\ channels["m1"] = 0
    /\ channels["a1"] = 1
    /\ loads["a1"] # {}

\* C23: the reservations of a session change only when a loadReservations is
\* answered, to the rows of that answer, or when the effect empties them for
\* a session left without user; no step of a booking, a cancellation or a
\* payment update changes them.
C23_OnlyLoadsAndLogoutChangeTheSet ==
    [][\A s \in Sessions :
           reservations'[s] # reservations[s] =>
               \/ /\ pc[s].op = "loadReservations"
                  /\ pc'[s] = Idle
                  /\ store' = store
                  /\ reservations'[s] = LoadedReservations(Principal(s), store)
               \/ /\ pc'[s] = pc[s]
                  /\ store' = store
                  /\ \E data \in loads[s] :
                         /\ reservations'[s] = data
                         /\ loads'[s] = loads[s] \ {data}
               \/ /\ user'[s] = Null
                  /\ <<user'[s], isAuthLoading'[s]>> # <<user[s], isAuthLoading[s]>>
                  /\ reservations'[s] = <<>>]_vars

\* the member booked and saw the reservation, then signed out: the table has
\* the row and the member's session holds nothing
C23_Witness ==
    /\ outcome["m1"] = "addReservation:true"
    /\ store # <<>>
    /\ user["m1"] = Null
    /\ reservations["m1"] = <<>>
    /\ reservations["a1"] # <<>>

\* C27: a session without user holds no reservations, also when a
\* loadReservations started before the user left is answered afterwards.
C27_EmptyWithoutUser ==
    \A s \in Sessions : user[s] = Null => reservations[s] = <<>>

-----------------------------------------------------------------------------
(* updateReservationPayment called again and again for a reservation, the  *)
(* clock moving on between the calls                                       *)

\* the updates of the three transitions: the status alone, with the URL the
\* reservation shows, or with the URL of an upload.  The requester submits,
\* the administrator verifies and resets.
RepeatUpdates(reservation) ==
    PaymentUpdates(reservation)
        \cup {[paymentStatus |-> Some("submitted"),
               paymentProofUrl |-> Some(Some(PublicUrl(reservation.id, 1)))]}

NextRepeat ==
    \E s \in Sessions :
        \/ BookCall(s)
        \/ AddReservationInsert(s)
        \/ \E reservation \in Range(reservations[s]) :
               \E updates \in RepeatUpdates(reservation), t \in now..MaxInstant :
                   /\ isAdminView(s) <=> updates.paymentStatus # Some("submitted")
                   /\ updateReservationPayment(s, reservation, updates, t)
        \/ UpdateReservationPaymentUpdate(s)
        \/ ChangeEventLoad(s)

SpecRepeat == Init /\ [][NextRepeat]_vars

\* the row is as an update with this payload leaves a row, whatever the time
\* of that update
AsWritten(row, payload) ==
    \A c \in DOMAIN payload :
        IF c = "payment_verified_at"
        THEN (row[c] = Null) <=> (payload[c] = Null)
        ELSE row[c] = payload[c]

\* C25: a payment update applied to a row that is as the same update left it
\* changes nothing of the row, payment_verified_at and payment_verified_by
\* included.
C25_RepeatedTransitionChangesNothing ==
    [][\A s \in Sessions :
           (pc[s].op \in UpdateCallers /\ pc[s].step = "update" /\ pc'[s] = Idle)
           => \A i \in DOMAIN store :
                  (store[i].id = pc[s].id /\ AsWritten(store[i], pc[s].payload))
                  => store'[i] = store[i]]_vars

-----------------------------------------------------------------------------
(* Bookings with a table that may fail to answer the select of             *)
(* isTimeSlotAvailable                                                     *)

\* the call when the select is answered with an error: data is null, the
\* function returns true at its first test and addReservation goes on to the
\* insert
AddReservationCheckSelectError(s, request) ==
    LET reservationData == [spaceId |-> request.spaceId,
                            userId |-> Principal(s).id,
                            date |-> request.date,
                            startTime |-> request.startTime,
                            endTime |-> request.endTime,
                            requiresPayment |-> request.requiresPayment] IN
    /\ pc[s] = Idle
    /\ pc' = [pc EXCEPT ![s] = [op |-> "addReservation",
                                reservationData |-> reservationData,
                                selectError |-> TRUE]]
    /\ outcome' = [outcome EXCEPT ![s] = "none"]
    /\ UNCHANGED <<store, now, nextUpload, reservations, paymentProofs, probe,
                   events, loads, reservationsError,
                   user, isAuthLoading, channels>>

NextSelectFaults ==
    \E s \in Sessions :
        \/ \E request \in BookingRequests :
               /\ AllIdle
               /\ Committed < MaxBookings
               /\ \/ AddReservationCheck(s, request)
                  \/ AddReservationCheckSelectError(s, request)
        \/ AddReservationInsert(s)
        \/ ChangeEventLoad(s)

SpecSelectFaults == Init /\ [][NextSelectFaults]_vars

\* C26: addReservation goes on to its insert only when the select of
\* isTimeSlotAvailable was answered with the reservations of the space and
\* day that are not cancelled and none of them overlaps the request; with
\* the select failing nothing is inserted.
C26_InsertOnlyAfterAnsweredCheck ==
    [][\A s \in Sessions :
           (pc[s] = Idle /\ pc'[s].op = "addReservation")
           => /\ "selectError" \notin DOMAIN pc'[s]
              /\ ~ ActiveOverlap(store, pc'[s].reservationData)]_vars

-----------------------------------------------------------------------------
(* The proof URL a verification writes *)

\* C28: the update of a verification never replaces the proof URL the row
\* holds with none or with the URL of an earlier upload.
C28_VerifyKeepsNewestProof ==
    [][\A s \in Sessions :
           (/\ pc[s].op = "handleVerifyPayment"
            /\ pc[s].step = "update"
            /\ pc'[s] = Idle)
           => \A i \in DOMAIN store :
                  (store[i].id = pc[s].id /\ store[i].payment_proof_url # Null)
                  => /\ store'[i].payment_proof_url # Null
                     /\ store'[i].payment_proof_url[2]
                            >= store[i].payment_proof_url[2]]_vars

-----------------------------------------------------------------------------
(* Cancellation and the payment columns *)

PaymentColumns == {"payment_status", "payment_proof_url",
                   "payment_verified_at", "payment_verified_by"}

\* the update of cancelReservation is answered in this step
CancelAnswered == \E s \in Sessions : pc[s].op = "cancelReservation" /\ pc'[s] = Idle

\* C29: the update of a cancellation changes no column of any row other than
\* status, and no payment column of a row whose status is cancelled changes
\* afterwards, whichever view the step comes from.
C29_CancelledPaymentFrozen ==
    [][\A i \in DOMAIN store :
           /\ CancelAnswered
              => \A c \in DOMAIN store[i] \ {"status"} : store'[i][c] = store[i][c]
           /\ store[i].status = "cancelled"
              => \A c \in PaymentColumns : store'[i][c] = store[i][c]]_vars

-----------------------------------------------------------------------------
(* The order of the snapshots a session shows *)

\* how far a list of reservations has come: under SpecRefresh rows are only
\* added, confirmed rows cancelled and payments verified, so of two different
\* answers of the table the later one counts more
Progress(list) ==
    Len(list)
    + Cardinality({i \in DOMAIN list : list[i].status = "cancelled"})
    + Cardinality({i \in DOMAIN list : list[i].paymentStatus = "verified"})

\* C30: with several loadReservations on their way, no step replaces the
\* reservations of a session by an answer older than the one they came from.
C30_NeverAnOlderSnapshot ==
    [][\A s \in Sessions : Progress(reservations'[s]) >= Progress(reservations[s])]_vars

====
